---- MODULE Spec2Model ----
(***************************************************************************)
(* Simple CMDB (src/app.py): the SQLite store behind the Flask handlers,   *)
(* the handlers that write to it (add_server, add_application,             *)
(* add_service, add_dependency, discover_local, import_table) and the CSV  *)
(* export.  Every handler opens its own connection; a connection's writes  *)
(* stay in its transaction until conn.commit(), and SQLite lets one        *)
(* connection write at a time.                                             *)
(*                                                                         *)
(* Conventions.  TEXT, REAL and scanned INTEGER columns hold strings (a    *)
(* number is its decimal text); SQL NULL / Python None in such a column is *)
(* the value NULL.  Row ids and foreign keys are integers from 1, NoId is  *)
(* NULL there.  Timestamps are readings of the clock `now` (from 1),       *)
(* NoTime is NULL there.                                                   *)
(***************************************************************************)
EXTENDS Integers, Sequences, FiniteSets, TLC

VARIABLES
    foreign_keys,   \* PRAGMA foreign_keys of the SQLite build (never set by the code)
    db,             \* the committed content of cmdb.db
    txn,            \* the content seen by the connection holding the write lock
    lock,           \* the thread whose connection holds the write lock, or NoThread
    pc,             \* per thread: the position of its handler
    local,          \* per thread: the handler's local variables
    resp,           \* the response a handler has just returned, NoResponse otherwise
    now,            \* the clock (datetime.now(), CURRENT_TIMESTAMP)
    csv_file        \* the CSV file most recently produced by export_table

vars == <<foreign_keys, db, txn, lock, pc, local, resp, now, csv_file>>

----------------------------------------------------------------------------
(* Bounds *)

MaxServerId  == 3   \* servers.id never grows beyond this
MaxAppId     == 2   \* applications.id
MaxServiceId == 2   \* services.id
MaxDepId     == 2   \* dependencies.id
MaxHistoryId == 3   \* discovery_history.id
MaxClock     == 2   \* last reading of the clock

----------------------------------------------------------------------------
(* Values *)

NULL     == "NULL"
NoId     == 0
NoTime   == 0
NoThread == "none"
Threads  == {"t1", "t2"}

Max(a, b) == IF a >= b THEN a ELSE b

Get(data, key, default) == IF key \in DOMAIN data THEN data[key] ELSE default

----------------------------------------------------------------------------
(* The schema: init_db *)

Tables == {"servers", "applications", "services", "dependencies", "discovery_history"}

init_db ==
    [servers           |-> {},
     applications      |-> {},
     services          |-> {},
     dependencies      |-> {},
     discovery_history |-> {},
     sqlite_sequence   |-> [t \in Tables |-> 0]]

\* A servers row with every column at its declared default.
ServerDefaults(id, ts) ==
    [id |-> id, hostname |-> NULL, ip_address |-> NULL, os_type |-> NULL,
     os_version |-> NULL, cpu_cores |-> NULL, memory_gb |-> NULL,
     disk_gb |-> NULL, environment |-> NULL, status |-> "active",
     location |-> NULL, owner |-> NULL, notes |-> NULL, last_seen |-> NoTime,
     created_at |-> ts, updated_at |-> ts]

ApplicationDefaults(id, ts) ==
    [id |-> id, name |-> NULL, version |-> NULL, type |-> NULL,
     language |-> NULL, repository_url |-> NULL, documentation_url |-> NULL,
     owner |-> NULL, criticality |-> NULL, notes |-> NULL,
     created_at |-> ts, updated_at |-> ts]

ServiceDefaults(id, ts) ==
    [id |-> id, server_id |-> NoId, application_id |-> NoId,
     service_name |-> NULL, port |-> NULL, protocol |-> NULL,
     status |-> "running", process_name |-> NULL, start_command |-> NULL,
     config_file |-> NULL, log_file |-> NULL,
     created_at |-> ts, updated_at |-> ts]

DependencyDefaults(id, ts) ==
    [id |-> id, source_service_id |-> NoId, target_service_id |-> NoId,
     dependency_type |-> NULL, port |-> NULL, protocol |-> NULL,
     description |-> NULL, created_at |-> ts]

DiscoveryDefaults(id, ts) ==
    [id |-> id, server_id |-> NoId, discovery_type |-> NULL, data |-> NULL,
     discovered_at |-> ts]

----------------------------------------------------------------------------
(* SQLite: ids, constraints, conflict resolution *)

Ids(rows) == {r.id : r \in rows}

MaxRowid(rows) == IF rows = {} THEN 0 ELSE CHOOSE i \in Ids(rows) : \A j \in Ids(rows) : j <= i

\* INTEGER PRIMARY KEY AUTOINCREMENT: one more than the largest id the table ever held.
NextId(store, table) == Max(store.sqlite_sequence[table], MaxRowid(store[table])) + 1

\* The id is taken (and recorded in sqlite_sequence) before the constraints are checked.
TakeId(store, table) ==
    [store EXCEPT !.sqlite_sequence[table] = NextId(store, table)]

\* ON DELETE CASCADE from servers: services, their dependencies, discovery_history.
\* It acts only when foreign keys are enforced.
CascadeFromServers(store, gone) ==
    LET dead == {s \in store.services : s.server_id \in gone}
    IN  [store EXCEPT
            !.services = store.services \ dead,
            !.dependencies = {d \in store.dependencies :
                                 /\ d.source_service_id \notin Ids(dead)
                                 /\ d.target_service_id \notin Ids(dead)},
            !.discovery_history = {h \in store.discovery_history : h.server_id \notin gone}]

DeleteServers(store, victims) ==
    LET without == [store EXCEPT !.servers = store.servers \ victims]
    IN  IF foreign_keys THEN CascadeFromServers(without, Ids(victims)) ELSE without

\* What a statement hands back to the cursor.
Result(ok, store, rowcount, lastrowid, error) ==
    [ok |-> ok, store |-> store, rowcount |-> rowcount, lastrowid |-> lastrowid, error |-> error]

\* Mutant: the hostname column declared without UNIQUE.
InsertServerNoUnique(store, row, onConflict) ==
    LET taken == TakeId(store, "servers")
    IN  IF row.hostname = NULL
        THEN IF onConflict = "IGNORE"
             THEN Result(TRUE, taken, 0, NoId, "")
             ELSE Result(FALSE, store, 0, NoId, "IntegrityError")
        ELSE Result(TRUE, [taken EXCEPT !.servers = taken.servers \cup {row}], 1, row.id, "")

\* INSERT [OR REPLACE | OR IGNORE] INTO servers: hostname TEXT UNIQUE NOT NULL.
\* `row` carries the statement's columns over the defaults; its id is the next id.
InsertServer(store, row, onConflict) ==
    LET clash == {s \in store.servers : s.hostname = row.hostname}
        taken == TakeId(store, "servers")
    IN  IF row.hostname = NULL
        THEN IF onConflict = "IGNORE"
             THEN Result(TRUE, taken, 0, NoId, "")
             ELSE Result(FALSE, store, 0, NoId, "IntegrityError")
        ELSE IF clash # {} /\ onConflict = "ABORT"
        THEN Result(FALSE, store, 0, NoId, "IntegrityError")
        ELSE IF clash # {} /\ onConflict = "IGNORE"
        THEN Result(TRUE, taken, 0, NoId, "")
        ELSE LET cleared == DeleteServers(taken, clash)
             IN  Result(TRUE, [cleared EXCEPT !.servers = cleared.servers \cup {row}],
                        1, row.id, "")

\* INSERT [OR IGNORE] INTO applications: name TEXT UNIQUE NOT NULL.
InsertApplication(store, row, onConflict) ==
    LET clash == {a \in store.applications : a.name = row.name}
        taken == TakeId(store, "applications")
    IN  IF row.name = NULL \/ clash # {}
        THEN IF onConflict = "IGNORE"
             THEN Result(TRUE, taken, 0, NoId, "")
             ELSE Result(FALSE, store, 0, NoId, "IntegrityError")
        ELSE Result(TRUE, [taken EXCEPT !.applications = taken.applications \cup {row}],
                    1, row.id, "")

\* A foreign key column is satisfied by NULL or by the id of a parent row;
\* the check is made only when foreign keys are enforced.
ForeignKeyOk(ref, parents) == (~foreign_keys) \/ ref = NoId \/ ref \in Ids(parents)

\* INSERT INTO services: service_name TEXT NOT NULL, two foreign keys.
InsertService(store, row) ==
    LET taken == TakeId(store, "services")
    IN  IF \/ row.service_name = NULL
           \/ ~ForeignKeyOk(row.server_id, store.servers)
           \/ ~ForeignKeyOk(row.application_id, store.applications)
        THEN Result(FALSE, store, 0, NoId, "IntegrityError")
        ELSE Result(TRUE, [taken EXCEPT !.services = taken.services \cup {row}],
                    1, row.id, "")

\* INSERT INTO dependencies: two foreign keys, no other constraint.
InsertDependency(store, row) ==
    LET taken == TakeId(store, "dependencies")
    IN  IF \/ ~ForeignKeyOk(row.source_service_id, store.services)
           \/ ~ForeignKeyOk(row.target_service_id, store.services)
        THEN Result(FALSE, store, 0, NoId, "IntegrityError")
        ELSE Result(TRUE, [taken EXCEPT !.dependencies = taken.dependencies \cup {row}],
                    1, row.id, "")

\* INSERT INTO discovery_history: one foreign key.
InsertDiscovery(store, row) ==
    LET taken == TakeId(store, "discovery_history")
    IN  IF ~ForeignKeyOk(row.server_id, store.servers)
        THEN Result(FALSE, store, 0, NoId, "IntegrityError")
        ELSE Result(TRUE, [taken EXCEPT !.discovery_history = taken.discovery_history \cup {row}],
                    1, row.id, "")

----------------------------------------------------------------------------
(* What the handlers receive *)

\* request.json of POST /api/server/add; a key the client left out is absent.
AddServerRequests ==
    { [hostname |-> "h1", environment |-> "staging", owner |-> "ops", notes |-> "rack 4"],
      [hostname |-> "h2"],
      [ip_address |-> "10.0.0.9"] }

\* request.json of POST /api/application/add.
AddApplicationRequests ==
    { [name |-> "shop", version |-> "1.0", notes |-> "billing"],
      [name |-> "db"],
      [version |-> "2.0"] }

\* request.json of POST /api/service/add.
AddServiceRequests ==
    { [server_id |-> 1, service_name |-> "web"],
      [server_id |-> 2, service_name |-> "api", application_id |-> 1],
      [service_name |-> "orphan"] }

\* request.json of POST /api/dependency/add.
AddDependencyRequests ==
    { [source_service_id |-> 1, target_service_id |-> 2],
      [source_service_id |-> 2, target_service_id |-> 1, dependency_type |-> "uses"],
      [source_service_id |-> 1] }

\* What socket, platform and psutil report when discover_local runs: the
\* host the program runs on is h1.
Scans ==
    { [hostname |-> "h1", ip_address |-> "10.0.0.1", os_type |-> "Linux",
       os_version |-> "5.4", cpu_cores |-> "4", memory_gb |-> "8.0", disk_gb |-> "100.0",
       services |-> <<"nginx">>, connections |-> <<"80/tcp">>],
      [hostname |-> "h1", ip_address |-> "10.0.0.1", os_type |-> "Linux",
       os_version |-> "", cpu_cores |-> "8", memory_gb |-> "16.0", disk_gb |-> "100.0",
       services |-> <<>>, connections |-> <<>>] }

NoScan ==
    [hostname |-> NULL, ip_address |-> NULL, os_type |-> NULL, os_version |-> NULL,
     cpu_cores |-> NULL, memory_gb |-> NULL, disk_gb |-> NULL,
     services |-> <<>>, connections |-> <<>>]

\* CSV files a client uploads to POST /api/import/<table>, as csv.DictReader
\* yields them: one dict per line, every value a string, a column the header
\* lacks absent.
UploadFiles ==
    [servers |->
        { << [hostname |-> "h1", ip_address |-> "10.0.0.7", environment |-> "dev"],
             [hostname |-> "h1", ip_address |-> "10.0.0.8", environment |-> "prod"] >>,
          << [ip_address |-> "10.0.0.9"],
             [hostname |-> "h2", ip_address |-> ""] >> },
     applications |->
        { << [name |-> "shop", version |-> "9.9"],
             [name |-> "shop", version |-> ""] >>,
          << [version |-> "3.1"],
             [name |-> "cache", version |-> ""] >> }]

----------------------------------------------------------------------------
(* Handler state *)

IdleLocal ==
    [op |-> "none", scan |-> NoScan, id |-> NoId, table |-> "none",
     rows |-> <<>>, exported |-> FALSE, imported |-> 0, errors |-> <<>>]

Response(op, code, id, imported, errors) ==
    [op |-> op, code |-> code, success |-> (code = 200), id |-> id,
     imported |-> imported, errors |-> errors]

NoResponse == Response("none", 0, NoId, 0, <<>>)

NoFile == [table |-> "none", rows |-> {}, text |-> <<>>]

Init ==
    /\ foreign_keys \in BOOLEAN
    /\ db = init_db
    /\ txn = init_db
    /\ lock = NoThread
    /\ pc = [t \in Threads |-> "idle"]
    /\ local = [t \in Threads |-> IdleLocal]
    /\ resp = NoResponse
    /\ now = 1
    /\ csv_file = NoFile

\* The store a statement of thread t runs against: its own transaction when it
\* holds the write lock, the committed content otherwise.
View(t) == IF lock = t THEN txn ELSE db

\* A write statement can run when no other connection holds the write lock.
CanWrite(t) == lock \in {NoThread, t}

\* Mutant: the connection in autocommit mode, every statement committed at once.
WriteAutocommit(t, store) ==
    /\ txn' = store
    /\ lock' = t
    /\ db' = store

\* A successful write statement: the change stays in the connection's transaction.
Write(t, store) ==
    /\ txn' = store
    /\ lock' = t
    /\ UNCHANGED db

\* conn.commit(): the transaction becomes the committed content.  A connection that wrote nothing holds no lock and has nothing to commit.
Commit(t) ==
    /\ db' = View(t)
    /\ txn' = IF lock = t THEN db' ELSE txn
    /\ lock' = IF lock = t THEN NoThread ELSE lock

\* The connection is closed (or dropped) without commit: the transaction is rolled back.
Rollback(t) ==
    /\ txn' = IF lock = t THEN db ELSE txn
    /\ lock' = IF lock = t THEN NoThread ELSE lock
    /\ UNCHANGED db

\* The handler returns r; resp holds a response in the state it is returned in.
Return(t, r) ==
    /\ pc' = [pc EXCEPT ![t] = "idle"]
    /\ local' = [local EXCEPT ![t] = IdleLocal]
    /\ resp' = r

Goto(t, label, vals) ==
    /\ pc' = [pc EXCEPT ![t] = label]
    /\ local' = [local EXCEPT ![t] = vals]
    /\ resp' = NoResponse

\* Time passes.
Tick ==
    /\ now < MaxClock
    /\ now' = now + 1
    /\ resp' = NoResponse
    /\ UNCHANGED <<foreign_keys, db, txn, lock, pc, local, csv_file>>

----------------------------------------------------------------------------
(* POST /api/discover/local *)

\* system_info['os_version'][:50] if system_info['os_version'] else 'Unknown'.
\* The version texts of Scans are shorter than 50 characters, so the slice keeps them whole.
StoredOsVersion(v) == IF v = "" THEN "Unknown" ELSE v

\* services[:20]
Top20(s) == IF Len(s) > 20 THEN SubSeq(s, 1, 20) ELSE s

\* The row of INSERT OR REPLACE INTO servers (hostname, ip_address, os_type,
\* os_version, cpu_cores, memory_gb, disk_gb, last_seen, status): every column
\* the statement does not name takes its default.
DiscoveredServerRow(id, scan) ==
    [ServerDefaults(id, now) EXCEPT
        !.hostname = scan.hostname, !.ip_address = scan.ip_address,
        !.os_type = scan.os_type, !.os_version = StoredOsVersion(scan.os_version),
        !.cpu_cores = scan.cpu_cores, !.memory_gb = scan.memory_gb,
        !.disk_gb = scan.disk_gb, !.last_seen = now, !.status = "active"]

\* server_id = c.lastrowid if c.lastrowid else SELECT id FROM servers WHERE hostname = ?
ResolveServerId(r, hostname) ==
    IF r.lastrowid # NoId
    THEN r.lastrowid
    ELSE (CHOOSE s \in r.store.servers : s.hostname = hostname).id

\* json.dumps({'system': ..., 'services': services[:20], 'connections': ...})
DiscoveryData(scan) ==
    [system |-> [k \in DOMAIN scan \ {"services", "connections"} |-> scan[k]],
     services |-> Top20(scan.services),
     connections |-> scan.connections]

DiscoveryRow(id, server_id, scan) ==
    [DiscoveryDefaults(id, now) EXCEPT
        !.server_id = server_id, !.discovery_type = "local_discovery",
        !.data = DiscoveryData(scan)]

\* The scan and the INSERT OR REPLACE.
discover_local_upsert(t) ==
    /\ pc[t] = "idle"
    /\ CanWrite(t)
    /\ NextId(db, "servers") <= MaxServerId
    /\ NextId(db, "discovery_history") <= MaxHistoryId
    /\ \E scan \in Scans :
          LET r == InsertServer(db, DiscoveredServerRow(NextId(db, "servers"), scan), "REPLACE")
          IN  /\ r.ok
              /\ Write(t, r.store)
              /\ Goto(t, "disc_history",
                      [IdleLocal EXCEPT !.op = "discover_local", !.scan = scan,
                                        !.id = ResolveServerId(r, scan.hostname)])
    /\ UNCHANGED <<foreign_keys, now, csv_file>>

\* The INSERT INTO discovery_history.
discover_local_history(t) ==
    /\ pc[t] = "disc_history"
    /\ LET r == InsertDiscovery(txn, DiscoveryRow(NextId(txn, "discovery_history"),
                                                   local[t].id, local[t].scan))
       IN  /\ r.ok
           /\ Write(t, r.store)
           /\ Goto(t, "disc_commit", local[t])
    /\ UNCHANGED <<foreign_keys, now, csv_file>>

\* conn.commit() and the success response.
discover_local_commit(t) ==
    /\ pc[t] = "disc_commit"
    /\ Commit(t)
    /\ Return(t, Response("discover_local", 200, NoId, 0, <<>>))
    /\ UNCHANGED <<foreign_keys, now, csv_file>>

\* except Exception: an error raised anywhere in the try block (the scan, a
\* statement, the commit; a locked database among them) ends the handler with
\* a 500; the connection is dropped uncommitted.
discover_local_except(t) ==
    /\ pc[t] \in {"idle", "disc_history", "disc_commit"}
    /\ Rollback(t)
    /\ Return(t, Response("discover_local", 500, NoId, 0, <<>>))
    /\ UNCHANGED <<foreign_keys, now, csv_file>>

----------------------------------------------------------------------------
(* POST /api/server/add *)

AddedServerRow(id, data) ==
    [ServerDefaults(id, now) EXCEPT
        !.hostname = data.hostname,
        !.ip_address = Get(data, "ip_address", NULL),
        !.os_type = Get(data, "os_type", NULL),
        !.os_version = Get(data, "os_version", NULL),
        !.environment = Get(data, "environment", "production"),
        !.owner = Get(data, "owner", NULL),
        !.notes = Get(data, "notes", NULL),
        !.status = "active"]

\* Mutant: the statement written as INSERT OR REPLACE.
add_server_upsert(t) ==
    /\ pc[t] = "idle"
    /\ CanWrite(t)
    /\ NextId(db, "servers") <= MaxServerId
    /\ \E data \in AddServerRequests :
          /\ "hostname" \in DOMAIN data
          /\ LET r == InsertServer(db, AddedServerRow(NextId(db, "servers"), data), "REPLACE")
             IN  /\ r.ok
                 /\ Write(t, r.store)
                 /\ Goto(t, "add_commit",
                         [IdleLocal EXCEPT !.op = "add_server", !.id = r.lastrowid])
    /\ UNCHANGED <<foreign_keys, now, csv_file>>

\* The INSERT succeeds.
add_server_insert(t) ==
    /\ pc[t] = "idle"
    /\ CanWrite(t)
    /\ NextId(db, "servers") <= MaxServerId
    /\ \E data \in AddServerRequests :
          /\ "hostname" \in DOMAIN data
          /\ LET r == InsertServer(db, AddedServerRow(NextId(db, "servers"), data), "ABORT")
             IN  /\ r.ok
                 /\ Write(t, r.store)
                 /\ Goto(t, "add_commit",
                         [IdleLocal EXCEPT !.op = "add_server", !.id = r.lastrowid])
    /\ UNCHANGED <<foreign_keys, now, csv_file>>

\* except sqlite3.IntegrityError: 400 'Server already exists'.
add_server_integrity_error(t) ==
    /\ pc[t] = "idle"
    /\ CanWrite(t)
    /\ \E data \in AddServerRequests :
          /\ "hostname" \in DOMAIN data
          /\ ~InsertServer(db, AddedServerRow(NextId(db, "servers"), data), "ABORT").ok
    /\ Rollback(t)
    /\ Return(t, Response("add_server", 400, NoId, 0, <<>>))
    /\ UNCHANGED <<foreign_keys, now, csv_file>>

\* except Exception: a request without 'hostname' (KeyError), a locked
\* database or a failed commit give a 500.
add_server_except(t) ==
    /\ \/ pc[t] = "idle"
       \/ pc[t] = "add_commit" /\ local[t].op = "add_server"
    /\ Rollback(t)
    /\ Return(t, Response("add_server", 500, NoId, 0, <<>>))
    /\ UNCHANGED <<foreign_keys, now, csv_file>>

\* conn.commit(); server_id = c.lastrowid; the success response.
add_server_commit(t) ==
    /\ pc[t] = "add_commit" /\ local[t].op = "add_server"
    /\ Commit(t)
    /\ Return(t, Response("add_server", 200, local[t].id, 0, <<>>))
    /\ UNCHANGED <<foreign_keys, now, csv_file>>

----------------------------------------------------------------------------
(* POST /api/application/add *)

AddedApplicationRow(id, data) ==
    [ApplicationDefaults(id, now) EXCEPT
        !.name = data.name,
        !.version = Get(data, "version", NULL),
        !.type = Get(data, "type", NULL),
        !.language = Get(data, "language", NULL),
        !.owner = Get(data, "owner", NULL),
        !.criticality = Get(data, "criticality", "medium"),
        !.notes = Get(data, "notes", NULL)]

add_application_insert(t) ==
    /\ pc[t] = "idle"
    /\ CanWrite(t)
    /\ NextId(db, "applications") <= MaxAppId
    /\ \E data \in AddApplicationRequests :
          /\ "name" \in DOMAIN data
          /\ LET r == InsertApplication(db, AddedApplicationRow(NextId(db, "applications"), data),
                                        "ABORT")
             IN  /\ r.ok
                 /\ Write(t, r.store)
                 /\ Goto(t, "add_commit",
                         [IdleLocal EXCEPT !.op = "add_application", !.id = r.lastrowid])
    /\ UNCHANGED <<foreign_keys, now, csv_file>>

\* except sqlite3.IntegrityError: 400 'Application already exists'.
add_application_integrity_error(t) ==
    /\ pc[t] = "idle"
    /\ CanWrite(t)
    /\ \E data \in AddApplicationRequests :
          /\ "name" \in DOMAIN data
          /\ ~InsertApplication(db, AddedApplicationRow(NextId(db, "applications"), data),
                                "ABORT").ok
    /\ Rollback(t)
    /\ Return(t, Response("add_application", 400, NoId, 0, <<>>))
    /\ UNCHANGED <<foreign_keys, now, csv_file>>

add_application_except(t) ==
    /\ \/ pc[t] = "idle"
       \/ pc[t] = "add_commit" /\ local[t].op = "add_application"
    /\ Rollback(t)
    /\ Return(t, Response("add_application", 500, NoId, 0, <<>>))
    /\ UNCHANGED <<foreign_keys, now, csv_file>>

add_application_commit(t) ==
    /\ pc[t] = "add_commit" /\ local[t].op = "add_application"
    /\ Commit(t)
    /\ Return(t, Response("add_application", 200, local[t].id, 0, <<>>))
    /\ UNCHANGED <<foreign_keys, now, csv_file>>

----------------------------------------------------------------------------
(* POST /api/service/add *)

AddedServiceRow(id, data) ==
    [ServiceDefaults(id, now) EXCEPT
        !.server_id = data.server_id,
        !.application_id = Get(data, "application_id", NoId),
        !.service_name = data.service_name,
        !.port = Get(data, "port", NULL),
        !.protocol = Get(data, "protocol", "tcp"),
        !.status = Get(data, "status", "running")]

add_service_insert(t) ==
    /\ pc[t] = "idle"
    /\ CanWrite(t)
    /\ NextId(db, "services") <= MaxServiceId
    /\ \E data \in AddServiceRequests :
          /\ {"server_id", "service_name"} \subseteq DOMAIN data
          /\ LET r == InsertService(db, AddedServiceRow(NextId(db, "services"), data))
             IN  /\ r.ok
                 /\ Write(t, r.store)
                 /\ Goto(t, "add_commit",
                         [IdleLocal EXCEPT !.op = "add_service", !.id = r.lastrowid])
    /\ UNCHANGED <<foreign_keys, now, csv_file>>

\* except Exception: a missing key, a failed constraint, a locked database
\* or a failed commit give a 500.
add_service_except(t) ==
    /\ \/ pc[t] = "idle"
       \/ pc[t] = "add_commit" /\ local[t].op = "add_service"
    /\ Rollback(t)
    /\ Return(t, Response("add_service", 500, NoId, 0, <<>>))
    /\ UNCHANGED <<foreign_keys, now, csv_file>>

add_service_commit(t) ==
    /\ pc[t] = "add_commit" /\ local[t].op = "add_service"
    /\ Commit(t)
    /\ Return(t, Response("add_service", 200, local[t].id, 0, <<>>))
    /\ UNCHANGED <<foreign_keys, now, csv_file>>

----------------------------------------------------------------------------
(* POST /api/dependency/add *)

AddedDependencyRow(id, data) ==
    [DependencyDefaults(id, now) EXCEPT
        !.source_service_id = data.source_service_id,
        !.target_service_id = data.target_service_id,
        !.dependency_type = Get(data, "dependency_type", "requires"),
        !.description = Get(data, "description", NULL)]

add_dependency_insert(t) ==
    /\ pc[t] = "idle"
    /\ CanWrite(t)
    /\ NextId(db, "dependencies") <= MaxDepId
    /\ \E data \in AddDependencyRequests :
          /\ {"source_service_id", "target_service_id"} \subseteq DOMAIN data
          /\ LET r == InsertDependency(db, AddedDependencyRow(NextId(db, "dependencies"), data))
             IN  /\ r.ok
                 /\ Write(t, r.store)
                 /\ Goto(t, "add_commit",
                         [IdleLocal EXCEPT !.op = "add_dependency", !.id = r.lastrowid])
    /\ UNCHANGED <<foreign_keys, now, csv_file>>

add_dependency_except(t) ==
    /\ \/ pc[t] = "idle"
       \/ pc[t] = "add_commit" /\ local[t].op = "add_dependency"
    /\ Rollback(t)
    /\ Return(t, Response("add_dependency", 500, NoId, 0, <<>>))
    /\ UNCHANGED <<foreign_keys, now, csv_file>>

add_dependency_commit(t) ==
    /\ pc[t] = "add_commit" /\ local[t].op = "add_dependency"
    /\ Commit(t)
    /\ Return(t, Response("add_dependency", 200, NoId, 0, <<>>))
    /\ UNCHANGED <<foreign_keys, now, csv_file>>

----------------------------------------------------------------------------
(* POST /api/import/<table> *)

ImportTables == {"servers", "applications"}

\* INSERT OR IGNORE INTO servers (hostname, ip_address, os_type, os_version,
\* environment, owner) VALUES (row.get(...), ...)
ImportedServerRow(id, row) ==
    [ServerDefaults(id, now) EXCEPT
        !.hostname = Get(row, "hostname", NULL),
        !.ip_address = Get(row, "ip_address", NULL),
        !.os_type = Get(row, "os_type", NULL),
        !.os_version = Get(row, "os_version", NULL),
        !.environment = Get(row, "environment", NULL),
        !.owner = Get(row, "owner", NULL)]

\* INSERT OR IGNORE INTO applications (name, version, type, language, owner)
ImportedApplicationRow(id, row) ==
    [ApplicationDefaults(id, now) EXCEPT
        !.name = Get(row, "name", NULL),
        !.version = Get(row, "version", NULL),
        !.type = Get(row, "type", NULL),
        !.language = Get(row, "language", NULL),
        !.owner = Get(row, "owner", NULL)]

\* One c.execute of the loop.
ImportRow(store, table, row) ==
    IF table = "servers"
    THEN InsertServer(store, ImportedServerRow(NextId(store, "servers"), row), "IGNORE")
    ELSE InsertApplication(store, ImportedApplicationRow(NextId(store, "applications"), row),
                           "IGNORE")

\* Mutant: every row that raised nothing is counted.
CountedAlways(imported, r) == imported + 1

\* if c.rowcount > 0: imported += 1
Counted(imported, r) == IF r.rowcount > 0 THEN imported + 1 ELSE imported

MaxIdOf(table) == IF table = "servers" THEN MaxServerId ELSE MaxAppId

\* The files a client can upload: its own, or the one it got from export_table.
Uploads(table) ==
    {[text |-> f, exported |-> FALSE] : f \in UploadFiles[table]}
        \cup (IF csv_file.table = table
              THEN {[text |-> csv_file.text, exported |-> TRUE]} ELSE {})

\* 400: 'Invalid table' or 'No file provided'.
import_table_rejected(t) ==
    /\ pc[t] = "idle"
    /\ Return(t, Response("import_table", 400, NoId, 0, <<>>))
    /\ UNCHANGED <<foreign_keys, db, txn, lock, now, csv_file>>

\* The file is read and the connection opened.
import_table_begin(t, table, file) ==
    /\ pc[t] = "idle"
    /\ table \in ImportTables
    /\ file \in Uploads(table)
    /\ NextId(db, table) + Len(file.text) - 1 <= MaxIdOf(table)
    /\ Goto(t, "imp_row",
            [IdleLocal EXCEPT !.op = "import_table", !.table = table,
                              !.rows = file.text, !.exported = file.exported])
    /\ UNCHANGED <<foreign_keys, db, txn, lock, now, csv_file>>

\* One pass of the loop whose INSERT OR IGNORE runs.
import_table_row(t) ==
    /\ pc[t] = "imp_row"
    /\ local[t].rows # <<>>
    /\ CanWrite(t)
    /\ NextId(View(t), local[t].table) <= MaxIdOf(local[t].table)
    /\ LET r == ImportRow(View(t), local[t].table, Head(local[t].rows))
       IN  /\ r.ok
           /\ Write(t, r.store)
           /\ Goto(t, "imp_row",
                   [local[t] EXCEPT !.rows = Tail(local[t].rows),
                                    !.imported = Counted(local[t].imported, r)])
    /\ UNCHANGED <<foreign_keys, now, csv_file>>

\* One pass of the loop whose statement raises (the database is locked by
\* another connection): errors.append(f"Row error: {str(e)}").
import_table_row_error(t) ==
    /\ pc[t] = "imp_row"
    /\ local[t].rows # <<>>
    /\ ~CanWrite(t)
    /\ Goto(t, "imp_row",
            [local[t] EXCEPT !.rows = Tail(local[t].rows),
                             !.errors = Append(local[t].errors, "Row error: database is locked")])
    /\ UNCHANGED <<foreign_keys, db, txn, lock, now, csv_file>>

\* conn.commit() and the summary.
import_table_commit(t) ==
    /\ pc[t] = "imp_row"
    /\ local[t].rows = <<>>
    /\ Commit(t)
    /\ Return(t, Response("import_table", 200, NoId, local[t].imported, local[t].errors))
    /\ UNCHANGED <<foreign_keys, now, csv_file>>

\* An error outside the loop's try (csv.Error from the reader, a failed
\* commit) is not caught: the request ends with a 500 and nothing is committed.
import_table_abort(t) ==
    /\ pc[t] = "imp_row"
    /\ Rollback(t)
    /\ Return(t, Response("import_table", 500, NoId, 0, <<>>))
    /\ UNCHANGED <<foreign_keys, now, csv_file>>

----------------------------------------------------------------------------
(* GET /api/export/<table> *)

ExportTables == {"servers", "applications", "services", "dependencies"}

IntegerColumns ==
    {"id", "server_id", "application_id", "source_service_id", "target_service_id",
     "last_seen", "created_at", "updated_at"}

\* csv.writer writes None as the empty field and a number as its decimal text;
\* csv.DictReader gives every field back as a string.
CsvField(column, v) ==
    IF column \in IntegerColumns
    THEN IF v = NoId THEN "" ELSE ToString(v)
    ELSE IF v = NULL THEN "" ELSE v

CsvLine(row) == [column \in DOMAIN row |-> CsvField(column, row[column])]

\* SELECT * FROM table returns the rows in rowid order.
RECURSIVE InRowidOrder(_)
InRowidOrder(rows) ==
    IF rows = {}
    THEN <<>>
    ELSE LET first == CHOOSE r \in rows : \A q \in rows : r.id <= q.id
         IN  <<first>> \o InRowidOrder(rows \ {first})

\* writer.writerow(rows[0].keys()); writer.writerows(...): nothing at all for an empty table.
CsvText(rows) ==
    LET ordered == InRowidOrder(rows)
    IN  [i \in 1..Len(ordered) |-> CsvLine(ordered[i])]

export_table(t, table) ==
    /\ pc[t] = "idle"
    /\ table \in ExportTables
    /\ csv_file' = [table |-> table, rows |-> db[table], text |-> CsvText(db[table])]
    /\ Return(t, Response("export_table", 200, NoId, 0, <<>>))
    /\ UNCHANGED <<foreign_keys, db, txn, lock, now>>

\* 400 'Invalid table'.
export_table_rejected(t) ==
    /\ pc[t] = "idle"
    /\ Return(t, Response("export_table", 400, NoId, 0, <<>>))
    /\ UNCHANGED <<foreign_keys, db, txn, lock, now, csv_file>>

----------------------------------------------------------------------------
(* GET /dependencies *)

\* The rows of the SELECT with every JOIN made a LEFT JOIN: a dependency whose
\* endpoint does not resolve is listed with NULL names.
DependenciesViewLeftJoin(store) ==
    LET Name(id) == IF id \in Ids(store.services)
                    THEN (CHOOSE v \in store.services : v.id = id).service_name
                    ELSE NULL
        Host(id) == IF \E v \in store.services :
                          v.id = id /\ v.server_id \in Ids(store.servers)
                    THEN LET v == CHOOSE v \in store.services : v.id = id
                         IN  (CHOOSE srv \in store.servers : srv.id = v.server_id).hostname
                    ELSE NULL
    IN  { d @@ [source_service |-> Name(d.source_service_id),
                target_service |-> Name(d.target_service_id),
                source_server |-> Host(d.source_service_id),
                target_server |-> Host(d.target_service_id)] :
          d \in store.dependencies }

\* SELECT d.*, s1.service_name, s2.service_name, srv1.hostname, srv2.hostname
\* FROM dependencies d JOIN services s1 JOIN services s2 JOIN servers srv1
\* JOIN servers srv2: one row per combination that satisfies the four ON
\* conditions.
DependenciesView(store) ==
    LET joined ==
            { j \in store.dependencies \X store.services \X store.services
                        \X store.servers \X store.servers :
                /\ j[1].source_service_id = j[2].id
                /\ j[1].target_service_id = j[3].id
                /\ j[2].server_id = j[4].id
                /\ j[3].server_id = j[5].id }
    IN  { j[1] @@ [source_service |-> j[2].service_name,
                   target_service |-> j[3].service_name,
                   source_server |-> j[4].hostname,
                   target_server |-> j[5].hostname] : j \in joined }

\* The handler: connect, SELECT, close, render the rows.
dependencies(t) ==
    /\ pc[t] = "idle"
    /\ Return(t, Response("dependencies", 200, NoId, 0, <<>>)
                     @@ [dependencies |-> DependenciesView(db)])
    /\ UNCHANGED <<foreign_keys, db, txn, lock, now, csv_file>>

----------------------------------------------------------------------------
(* The program *)

\* discover_local, step by step.
Discover(t) ==
    \/ discover_local_upsert(t)
    \/ discover_local_history(t)
    \/ discover_local_commit(t)
    \/ discover_local_except(t)

AddServer(t) ==
    \/ add_server_insert(t)
    \/ add_server_integrity_error(t)
    \/ add_server_except(t)
    \/ add_server_commit(t)

AddApplication(t) ==
    \/ add_application_insert(t)
    \/ add_application_integrity_error(t)
    \/ add_application_except(t)
    \/ add_application_commit(t)

AddService(t) ==
    \/ add_service_insert(t)
    \/ add_service_except(t)
    \/ add_service_commit(t)

AddDependency(t) ==
    \/ add_dependency_insert(t)
    \/ add_dependency_except(t)
    \/ add_dependency_commit(t)

\* import_table of the given table, one loop pass at a time.
Import(t, tables) ==
    \/ import_table_rejected(t)
    \/ \E table \in tables : \E file \in Uploads(table) : import_table_begin(t, table, file)
    \/ import_table_row(t)
    \/ import_table_commit(t)
    \/ import_table_abort(t)

\* The program is started on a new, empty cmdb.db: init_db creates the tables.
new_store ==
    /\ \A t \in Threads : pc[t] = "idle"
    /\ db # init_db
    /\ db' = init_db
    /\ txn' = init_db
    /\ resp' = NoResponse
    /\ UNCHANGED <<foreign_keys, lock, pc, local, now, csv_file>>

\* The thread of a specification that serves one request at a time.
Worker == "t1"

\* Requests served concurrently that write servers and discovery_history.
NextServers ==
    \E t \in Threads :
        \/ Discover(t)
        \/ AddServer(t)
        \/ Import(t, {"servers"})
        \/ import_table_row_error(t)

SpecServers == Init /\ [][NextServers]_vars

\* Requests, one at a time, that write the two tables with a unique key.
NextRegistry ==
    \/ AddServer(Worker)
    \/ AddApplication(Worker)
    \/ Import(Worker, ImportTables)

SpecRegistry == Init /\ [][NextRegistry]_vars

\* Requests, one at a time, that build the service graph; discovery replaces servers.
NextGraph ==
    \/ AddServer(Worker)
    \/ Discover(Worker)
    \/ AddApplication(Worker)
    \/ AddService(Worker)
    \/ AddDependency(Worker)

SpecGraph == Init /\ [][NextGraph]_vars

\* The client uploads the file it got from export_table.
import_exported(t) ==
    /\ csv_file # NoFile
    /\ import_table_begin(t, csv_file.table, [text |-> csv_file.text, exported |-> TRUE])

\* A store is filled, its tables are exported, and an exported file is imported,
\* into the same store or into a new one.
NextRoundTrip ==
    \/ Tick
    \/ AddServer(Worker)
    \/ AddApplication(Worker)
    \/ \E table \in ImportTables : export_table(Worker, table)
    \/ export_table_rejected(Worker)
    \/ new_store
    \/ import_exported(Worker)
    \/ import_table_row(Worker)
    \/ import_table_commit(Worker)

SpecRoundTrip == Init /\ [][NextRoundTrip]_vars

\* Requests, one at a time, that build the service graph, replace servers and
\* list the dependencies.
NextListing ==
    \/ AddServer(Worker)
    \/ Discover(Worker)
    \/ AddService(Worker)
    \/ AddDependency(Worker)
    \/ dependencies(Worker)

SpecListing == Init /\ [][NextListing]_vars

\* Requests, one at a time, that register and rediscover servers while time
\* passes.
NextHistory ==
    \/ Tick
    \/ AddServer(Worker)
    \/ Discover(Worker)

SpecHistory == Init /\ [][NextHistory]_vars

----------------------------------------------------------------------------
(* Claims *)

\* The step in which thread t's discover_local commits and returns success.
DiscoveryCommitted(t) ==
    /\ pc[t] = "disc_commit"
    /\ pc'[t] = "idle"
    /\ resp'.code = 200

\* The servers row of a hostname, as a set (empty when the hostname is unknown).
ServersOf(store, hostname) == {s \in store.servers : s.hostname = hostname}

OperatorFields == {"environment", "owner", "location", "notes", "status"}

\* C1: a successful discovery of a hostname that already has a servers row
\* leaves that row's environment, owner, location, notes and status as they were.
C1_DiscoveryKeepsOperatorFields ==
    [][\A t \in Threads :
          DiscoveryCommitted(t) =>
              \A s \in ServersOf(db, local[t].scan.hostname) :
                  \E s2 \in ServersOf(db', s.hostname) :
                      \A f \in OperatorFields : s2[f] = s[f]]_vars

\* C2: in every state, committed or inside a transaction, the servers table
\* holds at most one row per hostname.
C2_OneRowPerHostname ==
    \A store \in {db, txn} :
        \A a, b \in store.servers : a.hostname = b.hostname => a = b

\* A discovery of a hostname that has a row holds the write lock, its upsert
\* done, while a second discovery has just been turned away.
C2_Witness ==
    \E t \in Threads :
        /\ pc[t] \in {"disc_history", "disc_commit"}
        /\ ServersOf(db, local[t].scan.hostname) # {}
        /\ Cardinality(ServersOf(txn, local[t].scan.hostname)) = 1
        /\ resp.op = "discover_local"
        /\ resp.code = 500

\* C3: a successful discovery of a hostname that already has a servers row
\* keeps the row's id, and the id it resolved for the history record is that id.
C3_DiscoveryKeepsServerId ==
    [][\A t \in Threads :
          DiscoveryCommitted(t) =>
              \A s \in ServersOf(db, local[t].scan.hostname) :
                  /\ local[t].id = s.id
                  /\ \E s2 \in ServersOf(db', s.hostname) : s2.id = s.id]_vars

\* The discovery records of the server that carries a hostname.
RecordsOf(store, hostname) ==
    {h \in store.discovery_history :
        \E s \in ServersOf(store, hostname) : h.server_id = s.id}

\* C4: a successful discovery appends exactly one record, which references
\* the resolved server; it keeps every earlier record; and the host's server
\* has one record more than before.
C4_OneRecordPerDiscovery ==
    [][\A t \in Threads :
          DiscoveryCommitted(t) =>
              LET added == db'.discovery_history \ db.discovery_history
                  host  == local[t].scan.hostname
              IN  /\ Cardinality(added) = 1
                  /\ \A h \in added : h.server_id = local[t].id
                  /\ db.discovery_history \subseteq db'.discovery_history
                  /\ Cardinality(RecordsOf(db', host)) = Cardinality(RecordsOf(db, host)) + 1]_vars

\* C5: while a discovery is under way no step changes the committed store,
\* except the discovery's own successful commit; that step brings the upserted
\* servers row and the new history record together.  A discovery that returns
\* an error leaves the committed store as it was.
C5_DiscoveryAtomic ==
    [][\A t \in Threads :
          /\ (pc[t] \in {"disc_history", "disc_commit"} /\ ~DiscoveryCommitted(t)) => db' = db
          /\ (pc'[t] \in {"disc_history", "disc_commit"}) => db' = db
          /\ (resp'.op = "discover_local" /\ resp'.code = 500) => db' = db
          /\ DiscoveryCommitted(t) =>
                /\ \E s \in ServersOf(db', local[t].scan.hostname) :
                      /\ s.id = local[t].id
                      /\ s \notin db.servers
                /\ \E h \in db'.discovery_history \ db.discovery_history :
                      h.server_id = local[t].id]_vars

\* A discovery of a host that has a row, both writes done and nothing committed.
C5_Witness ==
    \E t \in Threads :
        /\ pc[t] = "disc_commit"
        /\ ServersOf(db, local[t].scan.hostname) # {}
        /\ txn.servers # db.servers
        /\ txn.discovery_history # db.discovery_history

\* The unique key of the two tables that have one.
KeyOf(table) == IF table = "servers" THEN "hostname" ELSE "name"

Keys(store, table) == {r[KeyOf(table)] : r \in store[table]}

AddTable(op) == IF op = "add_server" THEN "servers" ELSE "applications"

\* C6: add_server and add_application answer a request whose key is already
\* in the table with the conflict error, and that answer leaves the store
\* unchanged; they succeed only with a key that was not in the table, adding
\* one row and changing no other.
C6_ConflictLeavesStoreUnchanged ==
    [][/\ (resp'.op \in {"add_server", "add_application"} /\ resp'.code # 200) => db' = db
       /\ (resp'.op \in {"add_server", "add_application"} /\ resp'.code = 400) =>
              \E key \in Keys(db, AddTable(resp'.op)) : key # NULL
       /\ \A t \in Threads :
              (pc[t] = "add_commit" /\ resp'.code = 200
                   /\ local[t].op \in {"add_server", "add_application"}) =>
                  LET table == AddTable(local[t].op)
                  IN  /\ db[table] \subseteq db'[table]
                      /\ Cardinality(db'[table]) = Cardinality(db[table]) + 1
                      /\ Keys(db', table) # Keys(db, table)]_vars

\* add_server has just returned the conflict error for a hostname in the table.
C6_Witness ==
    /\ resp.op = "add_server"
    /\ resp.code = 400
    /\ \E data \in AddServerRequests :
          "hostname" \in DOMAIN data /\ ServersOf(db, data.hostname) # {}

\* C7: add_dependency succeeds, and adds its row, only when the source and
\* the target are both ids of services in the store.
C7_DependencyEndpointsExist ==
    [][\A t \in Threads :
          (pc[t] = "add_commit" /\ local[t].op = "add_dependency" /\ resp'.code = 200) =>
              \A d \in db'.dependencies \ db.dependencies :
                  /\ d.source_service_id \in Ids(db.services)
                  /\ d.target_service_id \in Ids(db.services)]_vars

\* C8: a step that removes a servers row removes the services that reference
\* it and the dependencies that start or end at those services, and leaves
\* the applications as they were.
C8_ServerDeleteCascades ==
    [][\A s \in db.servers :
          s.id \notin Ids(db'.servers) =>
              LET dead == {v \in db.services : v.server_id = s.id}
              IN  /\ \A v \in dead : v \notin db'.services
                  /\ \A d \in db'.dependencies :
                        /\ d.source_service_id \notin Ids(dead)
                        /\ d.target_service_id \notin Ids(dead)
                  /\ db'.applications = db.applications]_vars

\* The columns the store fills in by itself.
StoreTimestamps == {"created_at", "updated_at"}

WithoutTimestamps(rows) == {[c \in DOMAIN r \ StoreTimestamps |-> r[c]] : r \in rows}

\* C9: when the file export_table made of a table is imported into a store
\* whose table is empty, the table's rows equal the exported rows in every
\* column but created_at and updated_at.
C9_ExportImportRoundTrip ==
    [][\A t \in Threads :
          (/\ pc[t] = "imp_row"
           /\ local[t].exported
           /\ local[t].table = csv_file.table
           /\ db[local[t].table] = {}
           /\ resp'.op = "import_table"
           /\ resp'.code = 200) =>
              WithoutTimestamps(db'[local[t].table]) = WithoutTimestamps(csv_file.rows)]_vars

\* C10: a loop pass of import_table whose row carries a key that is already
\* in the table (from the store or from an earlier row of the batch) leaves
\* the table, `imported` and `errors` as they were; and the `imported` of the
\* summary is the number of rows the batch added, no earlier row changed.
C10_DuplicateRowsSkipped ==
    [][\A t \in Threads :
          /\ (/\ pc[t] = "imp_row"
              /\ pc'[t] = "imp_row"
              /\ local[t].rows # <<>>
              /\ local'[t].rows = Tail(local[t].rows)
              /\ CanWrite(t)
              /\ Get(Head(local[t].rows), KeyOf(local[t].table), NULL)
                     \in Keys(View(t), local[t].table)) =>
                 /\ txn'[local[t].table] = View(t)[local[t].table]
                 /\ local'[t].imported = local[t].imported
                 /\ local'[t].errors = local[t].errors
          /\ (pc[t] = "imp_row" /\ resp'.op = "import_table" /\ resp'.code = 200) =>
                 /\ db[local[t].table] \subseteq db'[local[t].table]
                 /\ resp'.imported = Cardinality(db'[local[t].table])
                                         - Cardinality(db[local[t].table])]_vars

\* An import has returned: of two rows for h1 the first was added and
\* counted, the second took an id and was dropped.
C10_Witness ==
    /\ resp.op = "import_table"
    /\ resp.code = 200
    /\ resp.imported = 1
    /\ resp.errors = <<>>
    /\ Cardinality(db.servers) = 1
    /\ \E s \in db.servers :
          /\ s.hostname = "h1"
          /\ s.environment = "dev"
          /\ db.sqlite_sequence["servers"] > s.id

\* C11: in every reachable store each service's server_id is the id of a
\* stored server, and each dependency's source_service_id and
\* target_service_id are ids of stored services.
C11_ReferentialIntegrity ==
    /\ \A v \in db.services : v.server_id \in Ids(db.servers)
    /\ \A d \in db.dependencies :
          /\ d.source_service_id \in Ids(db.services)
          /\ d.target_service_id \in Ids(db.services)

\* The (source_service_id, target_service_id, dependency_type) of a dependency.
Edge(d) == <<d.source_service_id, d.target_service_id, d.dependency_type>>

\* C12: the store never holds two dependency rows with the same edge, and an
\* add_dependency that answers 200 has added an edge the store did not hold.
C12_NoDuplicateEdge ==
    [][/\ \A a, b \in db'.dependencies : Edge(a) = Edge(b) => a = b
       /\ \A t \in Threads :
             (/\ pc[t] = "add_commit"
              /\ local[t].op = "add_dependency"
              /\ resp'.op = "add_dependency"
              /\ resp'.code = 200) =>
                 \A d \in db'.dependencies \ db.dependencies :
                     \A e \in db.dependencies : Edge(e) # Edge(d)]_vars

\* The dependencies of a store whose two services are stored and are on
\* stored servers.
Resolved(store) ==
    { d \in store.dependencies :
        \A end \in {d.source_service_id, d.target_service_id} :
            \E v \in store.services :
                v.id = end /\ v.server_id \in Ids(store.servers) }

\* C13: the dependency listing changes nothing in the store and answers 200
\* with exactly one row for each dependency whose source and target services
\* are stored on stored servers, carrying that dependency's columns and the
\* names of its services and servers; any other dependency yields no row.
C13_ListingIsInnerJoin ==
    [][resp'.op = "dependencies" =>
          /\ db' = db /\ txn' = txn /\ lock' = lock
          /\ resp'.code = 200
          /\ Cardinality(resp'.dependencies) = Cardinality(Resolved(db))
          /\ \A d \in Resolved(db) : \E r \in resp'.dependencies :
                /\ \A c \in DOMAIN d : r[c] = d[c]
                /\ \E s1, s2 \in db.services :
                      /\ s1.id = d.source_service_id /\ r.source_service = s1.service_name
                      /\ s2.id = d.target_service_id /\ r.target_service = s2.service_name
                      /\ \E srv1, srv2 \in db.servers :
                            /\ srv1.id = s1.server_id /\ r.source_server = srv1.hostname
                            /\ srv2.id = s2.server_id /\ r.target_server = srv2.hostname]_vars

\* The listing has answered on a store that holds a dependency between two
\* stored services, one of them on a server that is not stored: no row for it.
C13_Witness ==
    /\ resp.op = "dependencies"
    /\ resp.code = 200
    /\ resp.dependencies = {}
    /\ \E d \in db.dependencies :
          /\ d.source_service_id \in Ids(db.services)
          /\ d.target_service_id \in Ids(db.services)
          /\ d \notin Resolved(db)

\* The loop pass of thread t's import_table over the next row of its file.
ImportPass(t) ==
    /\ pc[t] = "imp_row"
    /\ pc'[t] = "imp_row"
    /\ local[t].rows # <<>>
    /\ local'[t].rows = Tail(local[t].rows)

\* C14: a loop pass of import_table over a row with no hostname / name value
\* adds an entry to `errors` and adds no row; a pass over a row with a value
\* the table does not hold yet adds that row and counts it in `imported`,
\* whatever rows came before it; and the summary's `imported` rows are
\* committed.
C14_BestEffortPerRow ==
    [][\A t \in Threads :
          /\ (ImportPass(t) /\ CanWrite(t)) =>
                LET table == local[t].table
                    key == Get(Head(local[t].rows), KeyOf(table), NULL)
                IN  /\ key = NULL =>
                          /\ Len(local'[t].errors) = Len(local[t].errors) + 1
                          /\ local'[t].imported = local[t].imported
                          /\ txn'[table] = View(t)[table]
                    /\ (key # NULL /\ key \notin Keys(View(t), table)) =>
                          /\ key \in Keys(txn', table)
                          /\ local'[t].imported = local[t].imported + 1
                          /\ local'[t].errors = local[t].errors
          /\ (pc[t] = "imp_row" /\ resp'.op = "import_table" /\ resp'.code = 200) =>
                resp'.imported = Cardinality(db'[local[t].table] \ db[local[t].table])]_vars

\* C15: a server's created_at is the same in every later store that holds its
\* hostname, never later than its updated_at, and a discovery that commits
\* leaves the server of the scanned hostname with updated_at at the time the
\* discovery saw it (last_seen), not earlier than it was.
C15_CreatedOnceUpdatedOften ==
    [][/\ \A s \in db.servers : \A s2 \in ServersOf(db', s.hostname) :
             /\ s2.created_at = s.created_at
             /\ s2.updated_at >= s.updated_at
       /\ \A s2 \in db'.servers : s2.created_at <= s2.updated_at
       /\ \A t \in Threads :
             DiscoveryCommitted(t) =>
                 \A s2 \in ServersOf(db', local[t].scan.hostname) :
                     s2.updated_at = s2.last_seen]_vars

====
